---- MODULE Spec2Model ----
(***************************************************************************)
(* A model of regex.py: Thompson construction of an NFA from a postfix     *)
(* regular expression (postfix_to_nfa) and its simulation (State.match).   *)
(*                                                                         *)
(* States live in an arena `states`; a State's identity is its index.      *)
(* An Output object is the pair <<state, slot>>; its `next` is             *)
(* states[state].outputs[slot], with Nil for Python's None (dangling).     *)
(***************************************************************************)
EXTENDS Integers, Sequences, FiniteSets, TLC

VARIABLES
    postfix,    \* the argument of postfix_to_nfa: a sequence of one-symbol tokens
    pos,        \* index of the next token the `for c in postfix` loop reads
    states,     \* every State object created so far
    stack,      \* the Fragment stack of postfix_to_nfa (top = last element)
    nfa,        \* <<>> until postfix_to_nfa returns, then <<the returned Fragment>>
    pc,         \* "construct" | "ready" | "scan" | "sweep" | "returned" | "raised"
    error,      \* the exception that left the running function, or NoError
    input,      \* the argument of the current State.match call
    i,          \* index of the next character the `for c in string` loop reads
    active,     \* active_states of State.match
    result,     \* what State.match returned: "True", "False", or "none" so far
    earlier     \* <<>>, or <<string, outcome, repeated>>: the outcome of the first
                \* finished match call on a probe, and whether it has been called again

vars == <<postfix, pos, states, stack, nfa, pc, error, input, i, active, result, earlier>>

----------------------------------------------------------------------------
(* Bounds of the exploration *)

MaxTokens == 3
MaxInput == 4

(* Python's None as a trigger / character, and as the target of an Output *)
None == "None"
Nil == 0

Operators == {".", "|", "?", "*", "+"}
Literals == {"a", "b", "c"}
Tokens == Literals \cup Operators

SeqsUpTo(S, n) == UNION {[1..k -> S] : k \in 0..n}

(* The expressions and inputs of pea_tests.py that the bounds above do not *)
(* already cover.                                                          *)
ConcatPatterns ==
    UNION {{<<x, y, ".", z, ".">>, <<x, y, z, ".", ".">>} :
              <<x, y, z>> \in {t \in Literals \X Literals \X Literals :
                                  t[1] # t[2] /\ t[1] # t[3] /\ t[2] # t[3]}}

TestPatterns ==
    ConcatPatterns \cup
    {<<"a", "b", ".", "c", "d", ".", "|">>,
     <<"a", "b", "c", "d", "|", "|", "|">>,
     <<"a", "+", "b", ".">>,
     <<"a", "?", "b", ".">>}

(* The symbols the enumerated inputs are made of *)
InputSymbols == {"a", "b"}

TestInputs ==
    {<<x, y, z>> : <<x, y, z>> \in Literals \X Literals \X Literals} \cup
    {<<"c">>, <<"d">>, <<"e">>, <<"e", "a">>, <<"a", "c">>, <<"c", "d">>, <<"b", "d">>,
     <<"a", "b", "c", "c">>,
     <<"a", "a", "a", "a", "a", "a", "b">>}

(* The inputs whose first outcome is kept in `earlier`, to be compared     *)
(* with the outcome of every later call with the same input.               *)
Probes == {<<>>, <<"a">>, <<"a", "b">>}

(* The first match call on an automaton takes any of Inputs; the calls     *)
(* after it take one of these.                                             *)
Repeats == Probes \cup {<<"b">>}

Patterns == SeqsUpTo(Tokens, MaxTokens) \cup TestPatterns
Inputs == SeqsUpTo(InputSymbols, MaxInput) \cup TestInputs

(* The exceptions the code can raise *)
NoError == "none"
IndexError == "IndexError: pop from empty list"
InvalidExpression == "Exception: Invalid expression, multiple fragments left on the stack."
EmptyExpression == "Exception: Empty expression, nothing left on the stack."
RecursionError == "RuntimeError: maximum recursion depth exceeded"
AssertionError == "AssertionError"

----------------------------------------------------------------------------
(* State, Output, Fragment *)

(* State.__init__: one Output per supplied next state, none if none given *)
State(trigger, nextStates) == [trigger |-> trigger, outputs |-> nextStates]

(* State.Match() written State(None, None): a Match state with one        *)
(* dangling output                                                         *)
MatchWithOutput == State(None, <<Nil>>)

(* State.Match() *)
Match == State(None, <<>>)

is_match(sts, s) == Len(sts[s].outputs) = 0 /\ sts[s].trigger = None

(* Output.next and Output.dangling for the Output op = <<state, slot>> *)
next(sts, op) == sts[op[1]].outputs[op[2]]
dangling(sts, op) == next(sts, op) = Nil

(* Output.set *)
set(sts, op, state) == [sts EXCEPT ![op[1]].outputs[op[2]] = state]

(* `for op in outputs: op.set(state)` *)
RECURSIVE SetEach(_, _, _)
SetEach(sts, ops, state) ==
    IF ops = {} THEN sts
    ELSE LET op == CHOOSE o \in ops : TRUE
         IN SetEach(set(sts, op, state), ops \ {op}, state)

(* Fragment.__init__: the outputs are all the Output objects of `enter` *)
Fragment(sts, enter) ==
    [enter |-> enter,
     outputs |-> {<<enter, k>> : k \in DOMAIN sts[enter].outputs}]

----------------------------------------------------------------------------
(* postfix_to_nfa *)

Init ==
    /\ postfix \in Patterns
    /\ pos = 1
    /\ states = <<>>
    /\ stack = <<>>
    /\ nfa = <<>>
    /\ pc = "construct"
    /\ error = NoError
    /\ input = <<>>
    /\ i = 1
    /\ active = {}
    /\ result = "none"
    /\ earlier = <<>>

(* The `for c in postfix` loop is at the token c *)
AtToken(c) == pc = "construct" /\ pos <= Len(postfix) /\ postfix[pos] = c

(* list.pop() / list.append() on the stack *)
Top(stk) == stk[Len(stk)]
Pop(stk) == SubSeq(stk, 1, Len(stk) - 1)

(* An exception leaves postfix_to_nfa: nothing is returned.  `stk` is what *)
(* the pops before the failing one left of the stack.                      *)
Raise(err, stk) ==
    /\ pc' = "raised"
    /\ error' = err
    /\ stack' = stk
    /\ UNCHANGED <<postfix, pos, states, nfa, input, i, active, result, earlier>>

(* The token is done: the loop moves to the next one *)
Step(sts, stk) ==
    /\ states' = sts
    /\ stack' = stk
    /\ pos' = pos + 1
    /\ UNCHANGED <<postfix, nfa, pc, error, input, i, active, result, earlier>>

(* Concat with the underflow reported as an invalid expression *)
ConcatInvalid ==
    /\ AtToken(".")
    /\ IF Len(stack) < 2
       THEN Raise(InvalidExpression, <<>>)
       ELSE LET f2 == Top(stack)
                f1 == Top(Pop(stack))
                sts == SetEach(states, f1.outputs, f2.enter)
            IN Step(sts, Append(Pop(Pop(stack)), [f1 EXCEPT !.outputs = f2.outputs]))

(* Concat with the operands taken in the other order *)
ConcatSwapped ==
    /\ AtToken(".")
    /\ IF Len(stack) < 2
       THEN Raise(IndexError, <<>>)
       ELSE LET f1 == Top(stack)
                f2 == Top(Pop(stack))
                sts == SetEach(states, f1.outputs, f2.enter)
            IN Step(sts, Append(Pop(Pop(stack)), [f1 EXCEPT !.outputs = f2.outputs]))

(* c == '.' *)
Concat ==
    /\ AtToken(".")
    /\ IF Len(stack) < 2
       THEN Raise(IndexError, <<>>)
       ELSE LET f2 == Top(stack)
                f1 == Top(Pop(stack))
                sts == SetEach(states, f1.outputs, f2.enter)
            IN Step(sts, Append(Pop(Pop(stack)), [f1 EXCEPT !.outputs = f2.outputs]))

(* c == '|' *)
Alternate ==
    /\ AtToken("|")
    /\ IF Len(stack) < 2
       THEN Raise(IndexError, <<>>)
       ELSE LET f2 == Top(stack)
                f1 == Top(Pop(stack))
                sts == Append(states, State(None, <<f1.enter, f2.enter>>))
                state == Len(sts)
                frag == [Fragment(sts, state) EXCEPT !.outputs = f1.outputs \cup f2.outputs]
            IN Step(sts, Append(Pop(Pop(stack)), frag))

(* ZeroOrOne that leaves the operand's dangling outputs out of the result *)
ZeroOrOneForgetting ==
    /\ AtToken("?")
    /\ IF Len(stack) < 1
       THEN Raise(IndexError, <<>>)
       ELSE LET f == Top(stack)
                sts == Append(states, State(None, <<f.enter, Nil>>))
                state == Len(sts)
                frag == [Fragment(sts, state) EXCEPT !.outputs = {<<state, 2>>}]
            IN Step(sts, Append(Pop(stack), frag))

(* c == '?' *)
ZeroOrOne ==
    /\ AtToken("?")
    /\ IF Len(stack) < 1
       THEN Raise(IndexError, <<>>)
       ELSE LET f == Top(stack)
                sts == Append(states, State(None, <<f.enter, Nil>>))
                state == Len(sts)
                frag == [Fragment(sts, state) EXCEPT !.outputs = f.outputs \cup {<<state, 2>>}]
            IN Step(sts, Append(Pop(stack), frag))

(* ZeroOrMore without the loop back from the operand *)
ZeroOrMoreNoLoop ==
    /\ AtToken("*")
    /\ IF Len(stack) < 1
       THEN Raise(IndexError, <<>>)
       ELSE LET f == Top(stack)
                sts == Append(states, State(None, <<f.enter, Nil>>))
                state == Len(sts)
                frag == [Fragment(sts, state) EXCEPT !.outputs = {<<state, 2>>}]
            IN Step(sts, Append(Pop(stack), frag))

(* c == '*' *)
ZeroOrMore ==
    /\ AtToken("*")
    /\ IF Len(stack) < 1
       THEN Raise(IndexError, <<>>)
       ELSE LET f == Top(stack)
                sts == Append(states, State(None, <<f.enter, Nil>>))
                state == Len(sts)
                frag == [Fragment(sts, state) EXCEPT !.outputs = {<<state, 2>>}]
            IN Step(SetEach(sts, f.outputs, state), Append(Pop(stack), frag))

(* OneOrMore entered at the new control state, as ZeroOrMore is *)
OneOrMoreEnteredAtControl ==
    /\ AtToken("+")
    /\ IF Len(stack) < 1
       THEN Raise(IndexError, <<>>)
       ELSE LET f == Top(stack)
                sts == Append(states, State(None, <<f.enter, Nil>>))
                state == Len(sts)
                wired == SetEach(sts, f.outputs, state)
                frag == [Fragment(wired, state) EXCEPT !.outputs = {<<state, 2>>}]
            IN Step(wired, Append(Pop(stack), frag))

(* c == '+' *)
OneOrMore ==
    /\ AtToken("+")
    /\ IF Len(stack) < 1
       THEN Raise(IndexError, <<>>)
       ELSE LET f == Top(stack)
                sts == Append(states, State(None, <<f.enter, Nil>>))
                state == Len(sts)
                wired == SetEach(sts, f.outputs, state)
                frag == [Fragment(wired, f.enter) EXCEPT !.outputs = {<<state, 2>>}]
            IN Step(wired, Append(Pop(stack), frag))

(* Literal whose state is created without its dangling output *)
LiteralNoOutput ==
    /\ pc = "construct" /\ pos <= Len(postfix)
    /\ postfix[pos] \notin Operators
    /\ LET sts == Append(states, State(postfix[pos], <<>>))
       IN Step(sts, Append(stack, Fragment(sts, Len(sts))))

(* else: a literal *)
Literal ==
    /\ pc = "construct" /\ pos <= Len(postfix)
    /\ postfix[pos] \notin Operators
    /\ LET sts == Append(states, State(postfix[pos], <<Nil>>))
       IN Step(sts, Append(stack, Fragment(sts, Len(sts))))

(* Finish with `stack_length >= 1` for `stack_length == 1` *)
FinishAtLeastOne ==
    /\ pc = "construct" /\ pos > Len(postfix)
    /\ IF Len(stack) >= 1
       THEN LET frag == stack[1]
                sts == Append(states, Match)
            IN /\ states' = SetEach(sts, frag.outputs, Len(sts))
               /\ nfa' = <<frag>>
               /\ pc' = "ready"
               /\ UNCHANGED <<postfix, pos, stack, error, input, i, active, result, earlier>>
       ELSE Raise(EmptyExpression, stack)

(* After the loop: exactly one fragment must be left *)
Finish ==
    /\ pc = "construct" /\ pos > Len(postfix)
    /\ IF Len(stack) = 1
       THEN LET frag == stack[1]
                sts == Append(states, Match)
            IN /\ states' = SetEach(sts, frag.outputs, Len(sts))
               /\ nfa' = <<frag>>
               /\ pc' = "ready"
               /\ UNCHANGED <<postfix, pos, stack, error, input, i, active, result, earlier>>
       ELSE IF Len(stack) > 1
       THEN Raise(InvalidExpression, stack)
       ELSE Raise(EmptyExpression, stack)

----------------------------------------------------------------------------
(* State.auto_expand, State.advance *)

(* auto_expand keeps no record of the states it has visited.  A chain of    *)
(* nested calls longer than the number of State objects has entered some   *)
(* control state twice and so never ends: Python stops it with a           *)
(* RuntimeError when the interpreter's recursion limit is reached.         *)
RecursionLimit(sts) == Len(sts)

(* The result is [raised, states]: `raised` when the RuntimeError left the *)
(* call, else `states` is the returned set.                                *)
RECURSIVE auto_expand(_, _, _)
auto_expand(sts, self, depth) ==
    IF depth > RecursionLimit(sts)
    THEN [raised |-> TRUE, states |-> {}]
    ELSE IF sts[self].trigger = None
    THEN LET outs == sts[self].outputs
             expanded == {auto_expand(sts, outs[k], depth + 1) :
                             k \in {j \in DOMAIN outs : outs[j] # Nil}}
         IN [raised |-> \E r \in expanded : r.raised,
             states |-> UNION {r.states : r \in expanded}]
    ELSE [raised |-> FALSE, states |-> {self}]

(* Some state of `seen`, or one that control states lead to from it, is    *)
(* the Match state (n bounds the length of the walk).                      *)
RECURSIVE LeadsToMatch(_, _, _)
LeadsToMatch(sts, seen, n) ==
    \/ \E s \in seen : is_match(sts, s)
    \/ /\ n > 0
       /\ LeadsToMatch(sts,
                       seen \cup UNION {{sts[s].outputs[k] : k \in DOMAIN sts[s].outputs} \ {Nil} :
                                           s \in {t \in seen : sts[t].trigger = None}},
                       n - 1)

(* advance with the test `if len(state.outputs)` inverted *)
advanceInverted(sts, self, char) ==
    LET current_states == auto_expand(sts, self, 1)
        passed == {s \in current_states.states : sts[s].trigger = char}
    IN IF current_states.raised
       THEN [kind |-> "raise", error |-> RecursionError, states |-> {}]
       ELSE IF \E s \in current_states.states : sts[s].trigger = None
       THEN [kind |-> "raise", error |-> AssertionError, states |-> {}]
       ELSE IF \E s \in passed : Len(sts[s].outputs) # 0
       THEN [kind |-> "True", error |-> NoError, states |-> {}]
       ELSE [kind |-> "set", error |-> NoError, states |-> {}]

(* advance(char): [kind, error, states] with kind "raise", "True" (the     *)
(* acceptance signal) or "set" (the set of next states).                   *)
advance(sts, self, char) ==
    LET current_states == auto_expand(sts, self, 1)
        passed == {s \in current_states.states : sts[s].trigger = char}
    IN IF current_states.raised
       THEN [kind |-> "raise", error |-> RecursionError, states |-> {}]
       ELSE IF \E s \in current_states.states : sts[s].trigger = None
       THEN [kind |-> "raise", error |-> AssertionError, states |-> {}]
       ELSE IF \E s \in passed : Len(sts[s].outputs) = 0
       THEN [kind |-> "True", error |-> NoError, states |-> {}]
       ELSE [kind |-> "set", error |-> NoError,
             states |-> UNION {{sts[s].outputs[k] : k \in DOMAIN sts[s].outputs} \ {Nil} :
                                  s \in passed}]

----------------------------------------------------------------------------
(* State.match, called on the entry state of the returned fragment *)

(* state.match(string) is called; an automaton can be matched any number   *)
(* of times.                                                               *)
match(string) ==
    /\ nfa # <<>>
    /\ pc \in {"ready", "returned", "raised"}
    /\ input' = string
    /\ i' = 1
    /\ active' = {nfa[1].enter}
    /\ result' = "none"
    /\ error' = NoError
    /\ pc' = IF Len(string) = 0 THEN "sweep" ELSE "scan"
    /\ UNCHANGED <<postfix, pos, states, stack, nfa, earlier>>

(* The call ends with `outcome` (the returned value or the exception): it  *)
(* is kept if it is the first outcome of a probe.                          *)
Kept(outcome) ==
    IF earlier = <<>>
    THEN IF input \in Probes THEN <<input, outcome, FALSE>> ELSE earlier
    ELSE IF earlier[1] = input THEN <<earlier[1], earlier[2], TRUE>> ELSE earlier

(* `for state in active_states: next_states = state.advance(char)`.  The   *)
(* set is walked in no particular order, so when one state raises and      *)
(* another signals acceptance either may come first.                       *)
Return(value) ==
    /\ pc' = "returned"
    /\ result' = value
    /\ earlier' = Kept(value)
    /\ UNCHANGED <<postfix, pos, states, stack, nfa, error, input, i, active>>

RaiseInMatch(err) ==
    /\ pc' = "raised"
    /\ error' = err
    /\ earlier' = Kept(err)
    /\ UNCHANGED <<postfix, pos, states, stack, nfa, input, i, active, result>>

Advanced(char) == [s \in active |-> advance(states, s, char)]

(* Some active state signals acceptance: `return True` *)
Accepting(char) == \E s \in active : Advanced(char)[s].kind = "True"

(* The exceptions the active states' advance calls raise *)
Raising(char) == {Advanced(char)[s].error : s \in {t \in active : Advanced(char)[t].kind = "raise"}}

(* new_states once the inner loop has run through *)
new_states(char) == UNION {Advanced(char)[s].states : s \in active}

(* ScanChar that unplugs the outputs of the states it has advanced *)
ScanCharUnplugging ==
    /\ pc = "scan"
    /\ \/ /\ Accepting(input[i])
          /\ Return("True")
       \/ \E err \in Raising(input[i]) : RaiseInMatch(err)
       \/ /\ ~Accepting(input[i]) /\ Raising(input[i]) = {}
          /\ IF Cardinality(new_states(input[i])) = 0
             THEN /\ pc' = "sweep"
                  /\ UNCHANGED <<postfix, pos, states, stack, nfa, error,
                                 input, i, active, result, earlier>>
             ELSE /\ active' = new_states(input[i])
                  /\ i' = i + 1
                  /\ pc' = IF i = Len(input) THEN "sweep" ELSE "scan"
                  /\ states' = SetEach(states,
                                       UNION {Fragment(states, s).outputs : s \in active},
                                       Nil)
                  /\ UNCHANGED <<postfix, pos, stack, nfa, error,
                                 input, result, earlier>>

(* One pass of `for c in string` *)
ScanChar ==
    /\ pc = "scan"
    /\ \/ /\ Accepting(input[i])
          /\ Return("True")
       \/ \E err \in Raising(input[i]) : RaiseInMatch(err)
       \/ /\ ~Accepting(input[i]) /\ Raising(input[i]) = {}
          /\ IF Cardinality(new_states(input[i])) = 0
             THEN \* break: active_states keeps its old value
                  /\ pc' = "sweep"
                  /\ UNCHANGED <<postfix, pos, states, stack, nfa, error,
                                 input, i, active, result, earlier>>
             ELSE /\ active' = new_states(input[i])
                  /\ i' = i + 1
                  /\ pc' = IF i = Len(input) THEN "sweep" ELSE "scan"
                  /\ UNCHANGED <<postfix, pos, states, stack, nfa, error,
                                 input, result, earlier>>

(* Sweep that accepts as soon as an active state leads to the Match state  *)
(* through control states only.                                            *)
SweepSeeingMatch ==
    /\ pc = "sweep"
    /\ IF active = {}
       THEN Return("False")
       ELSE \/ /\ \E s \in active : LeadsToMatch(states, {s}, Len(states))
               /\ Return("True")
            \/ /\ \A s \in active : ~LeadsToMatch(states, {s}, Len(states))
               /\ active' = {}
               /\ UNCHANGED <<postfix, pos, states, stack, nfa, pc, error,
                              input, i, result, earlier>>

(* One pass of `while active_states`, or its exit with `return False` *)
Sweep ==
    /\ pc = "sweep"
    /\ IF active = {}
       THEN Return("False")
       ELSE \/ /\ Accepting(None)
               /\ Return("True")
            \/ \E err \in Raising(None) : RaiseInMatch(err)
            \/ /\ ~Accepting(None) /\ Raising(None) = {}
               /\ active' = new_states(None)
               /\ UNCHANGED <<postfix, pos, states, stack, nfa, pc, error,
                              input, i, result, earlier>>

----------------------------------------------------------------------------
Next ==
    \/ Concat
    \/ Alternate
    \/ ZeroOrOne
    \/ ZeroOrMore
    \/ OneOrMore
    \/ Literal
    \/ Finish
    \/ \E string \in (IF pc = "ready" THEN Inputs ELSE Repeats) : match(string)
    \/ ScanChar
    \/ Sweep

Spec == Init /\ [][Next]_vars

----------------------------------------------------------------------------
(* The language of a postfix expression, by the usual semantics of the     *)
(* operators, restricted to the strings of length at most n.  This is the  *)
(* yardstick the matcher's answers are compared with.                      *)

Cat(A, B, n) == {w \in {u \o v : u \in A, v \in B} : Len(w) <= n}

RECURSIVE Star(_, _, _)
Star(A, n, k) ==
    IF k = 0 THEN {<<>>}
    ELSE LET S == Star(A, n, k - 1) IN S \cup Cat(S, A, n)

RECURSIVE LangStack(_, _, _)
LangStack(expr, k, n) ==
    IF k = 0 THEN <<>>
    ELSE LET stk == LangStack(expr, k - 1, n)
             c == expr[k]
             L2 == Top(stk)
             L1 == Top(Pop(stk))
         IN CASE c = "." -> Append(Pop(Pop(stk)), Cat(L1, L2, n))
              [] c = "|" -> Append(Pop(Pop(stk)), L1 \cup L2)
              [] c = "?" -> Append(Pop(stk), L2 \cup {<<>>})
              [] c = "*" -> Append(Pop(stk), Star(L2, n, n))
              [] c = "+" -> Append(Pop(stk), Cat(L2, Star(L2, n, n), n))
              [] OTHER -> Append(stk, {w \in {<<c>>} : n >= 1})

InLanguage(expr, w) == w \in LangStack(expr, Len(expr), Len(w))[1]

Returned == pc = "returned"
Accepted == result = "True"
Rejected == result = "False"

(* w is a run of zero or more c's *)
RunOf(c, w) == \A k \in DOMAIN w : w[k] = c

----------------------------------------------------------------------------
(* C1: for every literal c, match on the automaton of the expression c     *)
(* returns true for the input c and false for every other input.           *)
C1_LiteralAcceptsExactlyItself ==
    \A c \in Literals :
        (Returned /\ postfix = <<c>>) => (Accepted <=> input = <<c>>)

(* C2: for distinct literals x, y, z, match on the automaton of `xy.z.`    *)
(* and of `xyz..` returns true for the input xyz and false for every       *)
(* other input.                                                            *)
C2_ConcatAcceptsExactlyXYZ ==
    \A x, y, z \in Literals :
        (/\ x # y /\ x # z /\ y # z
         /\ Returned
         /\ postfix \in {<<x, y, ".", z, ".">>, <<x, y, z, ".", ".">>})
        => (Accepted <=> input = <<x, y, z>>)

(* C3: the automaton of an alternation accepts exactly the inputs one of   *)
(* the alternatives accepts: `ab|` accepts exactly a and b, `ab.cd.|`      *)
(* exactly ab and cd, `abcd|||` exactly a, b, c and d.                     *)
C3_AlternateAcceptsEither ==
    /\ (Returned /\ postfix = <<"a", "b", "|">>)
          => (Accepted <=> input \in {<<"a">>, <<"b">>})
    /\ (Returned /\ postfix = <<"a", "b", ".", "c", "d", ".", "|">>)
          => (Accepted <=> input \in {<<"a", "b">>, <<"c", "d">>})
    /\ (Returned /\ postfix = <<"a", "b", "c", "d", "|", "|", "|">>)
          => (Accepted <=> input \in {<<"a">>, <<"b">>, <<"c">>, <<"d">>})

(* C4: match on the automaton of `a*` returns true for every run of zero   *)
(* or more a's.                                                            *)
C4_StarAcceptsRuns ==
    (Returned /\ postfix = <<"a", "*">> /\ RunOf("a", input))
        => Accepted

(* C5: match on the automaton of `a+` returns true for every run of one or *)
(* more a's and false for the empty input; on the automaton of `a+b.` it   *)
(* returns true for one or more a's followed by one b and false for b.     *)
C5_PlusAcceptsOneOrMore ==
    /\ (Returned /\ postfix = <<"a", "+">>)
          => /\ (Len(input) >= 1 /\ RunOf("a", input)) => Accepted
             /\ input = <<>> => Rejected
    /\ (Returned /\ postfix = <<"a", "+", "b", ".">>)
          => /\ (/\ Len(input) >= 2
                 /\ RunOf("a", SubSeq(input, 1, Len(input) - 1))
                 /\ input[Len(input)] = "b") => Accepted
             /\ input = <<"b">> => Rejected

(* C6: match on the automaton of `a?` returns true for the empty input and *)
(* for the input a; on the automaton of `a?b.` it returns false for aa.    *)
C6_OptionAcceptsZeroOrOne ==
    /\ (Returned /\ postfix = <<"a", "?">> /\ input \in {<<>>, <<"a">>}) => Accepted
    /\ (Returned /\ postfix = <<"a", "?", "b", ".">> /\ input = <<"a", "a">>) => Rejected

ConstructionEnded == pc # "construct" /\ pos > Len(postfix)

C8_EmptyAndMalformedRaise ==
    /\ (ConstructionEnded /\ Len(stack) = 0)
          => (pc = "raised" /\ error = EmptyExpression /\ nfa = <<>>)
    /\ (ConstructionEnded /\ Len(stack) > 1)
          => (pc = "raised" /\ error = InvalidExpression /\ nfa = <<>>)
    /\ EmptyExpression # InvalidExpression
    /\ nfa # <<>> => (ConstructionEnded /\ Len(stack) = 1)

C8_Witness ==
    /\ postfix = <<"a", "b">>
    /\ pc = "raised" /\ error = InvalidExpression
    /\ Len(stack) = 2 /\ nfa = <<>>

(* C9: an operator met with fewer fragments on the stack than it needs     *)
(* stops the construction at that token with a failure that is neither the *)
(* empty-expression nor the invalid-expression error, and nothing is       *)
(* returned.                                                               *)
Arity(c) == IF c \in {".", "|"} THEN 2 ELSE 1

Underflow ==
    /\ pc = "construct" /\ pos <= Len(postfix)
    /\ postfix[pos] \in Operators
    /\ Len(stack) < Arity(postfix[pos])

C9_UnderflowRaises ==
    [][Underflow => /\ pc' = "raised"
                    /\ error' = IndexError
                    /\ error' \notin {EmptyExpression, InvalidExpression}
                    /\ pos' = pos
                    /\ nfa' = <<>>]_vars

C9_Witness ==
    /\ postfix = <<"a", ".">>
    /\ pos = 2
    /\ pc = "raised" /\ error = IndexError
    /\ nfa = <<>>

(* C10: for every automaton postfix_to_nfa returns, match ends by          *)
(* returning a boolean: no exception leaves it.                            *)
C10_MatchNeverRaises ==
    nfa # <<>> => pc # "raised"

----------------------------------------------------------------------------
(* The states reachable from `root` along assigned outputs *)
Targets(sts, s) == {sts[s].outputs[k] : k \in DOMAIN sts[s].outputs} \ {Nil}

RECURSIVE ReachableFrom(_, _, _)
ReachableFrom(sts, seen, n) ==
    IF n = 0 THEN seen
    ELSE ReachableFrom(sts, seen \cup UNION {Targets(sts, s) : s \in seen}, n - 1)

Reachable(sts, root) == ReachableFrom(sts, {root}, Len(sts))

(* The outcome of a finished match call *)
Finished == nfa # <<>> /\ pc \in {"returned", "raised"}
Outcome == IF pc = "returned" THEN result ELSE error

(* C11: match, advance and auto_expand leave the automaton as              *)
(* postfix_to_nfa returned it, and a match call ends as the earlier call   *)
(* with the same input did, whatever calls ran in between.                 *)
SameAsEarlier == (Finished /\ earlier # <<>> /\ earlier[1] = input) => Outcome = earlier[2]

C11_MatchLeavesAutomaton ==
    [][/\ nfa # <<>> => (states' = states /\ nfa' = nfa)
       /\ SameAsEarlier']_vars

C11_Witness ==
    /\ postfix = <<"a", "b", ".">>
    /\ Returned
    /\ input = <<"a", "b">>
    /\ earlier = <<input, result, TRUE>>

(* C12: in the automaton postfix_to_nfa returns no output of a state       *)
(* reachable from the entry is dangling; the outputs of the surviving      *)
(* fragment all lead to the Match state Finish created, and that is the    *)
(* only Match state reachable from the entry.                              *)
C12_NoDanglingAfterFinish ==
    nfa # <<>> =>
        LET root == nfa[1].enter
            last == Len(states)
        IN /\ \A s \in Reachable(states, root) :
                  \A k \in DOMAIN states[s].outputs : ~dangling(states, <<s, k>>)
           /\ nfa[1].outputs # {}
           /\ \A op \in nfa[1].outputs : next(states, op) = last
           /\ is_match(states, last)
           /\ \A s \in Reachable(states, root) : is_match(states, s) => s = last

C12_Witness ==
    /\ postfix = <<"a", "?">>
    /\ pc = "ready"
    /\ Cardinality(nfa[1].outputs) = 2
    /\ \A op \in nfa[1].outputs : next(states, op) = Len(states)

(* C13: match returns true when a prefix of the input satisfies the        *)
(* pattern and the next symbol advances no active state: `a*` matches      *)
(* aaab and `a?` matches b.                                                *)
C13_PrefixMatches ==
    /\ (Returned /\ postfix = <<"a", "*">> /\ input = <<"a", "a", "a", "b">>) => Accepted
    /\ (Returned /\ postfix = <<"a", "?">> /\ input = <<"b">>) => Accepted

(* The states control states lead to from s, s included *)
RECURSIVE ControlReach(_, _, _)
ControlReach(sts, seen, n) ==
    IF n = 0 THEN seen
    ELSE ControlReach(sts,
                      seen \cup UNION {Targets(sts, s) : s \in {t \in seen : sts[t].trigger = None}},
                      n - 1)

EpsilonClosure(sts, s) ==
    {t \in ControlReach(sts, {s}, Len(sts)) : sts[t].trigger # None \/ is_match(sts, t)}

(* C14: in a constructed automaton auto_expand of a control state returns  *)
(* exactly the states with a trigger, and the Match state, that control    *)
(* states lead to from it; auto_expand of a state with a trigger returns   *)
(* that state alone.                                                       *)
C14_AutoExpandIsEpsilonClosure ==
    nfa # <<>> =>
        \A s \in {t \in DOMAIN states : ~is_match(states, t)} :
            LET expanded == auto_expand(states, s, 1)
            IN /\ ~expanded.raised
               /\ expanded.states = IF states[s].trigger # None
                                    THEN {s}
                                    ELSE EpsilonClosure(states, s)

(* C15: once a character has advanced no active state, match does not      *)
(* accept: the sweep that follows the break only ends with False.          *)
BrokeOff == pc = "sweep" /\ i <= Len(input)

OthersKept(ops) ==
    \A s \in DOMAIN states : \A k \in DOMAIN states[s].outputs :
        <<s, k>> \notin ops => next(states', <<s, k>>) = next(states, <<s, k>>)

(* C16: on `.` the top fragment is the right operand f2 and the next one   *)
(* the left operand f1; every dangling output of f1 is set to f2's entry   *)
(* and one fragment with f1's entry and f2's dangling outputs replaces the *)
(* two; no State is created.                                               *)
C16_ConcatWiresLeftToRight ==
    [][(AtToken(".") /\ Len(stack) >= 2) =>
          LET f2 == Top(stack)
              f1 == Top(Pop(stack))
          IN /\ Len(stack') = Len(stack) - 1
             /\ Pop(stack') = Pop(Pop(stack))
             /\ Top(stack') = [enter |-> f1.enter, outputs |-> f2.outputs]
             /\ Len(states') = Len(states)
             /\ \A op \in f1.outputs : next(states', op) = f2.enter
             /\ OthersKept(f1.outputs)]_vars

C16_Witness ==
    /\ postfix = <<"a", "b", ".">>
    /\ pc = "construct" /\ pos = 4
    /\ states = <<State("a", <<2>>), State("b", <<Nil>>)>>
    /\ stack = <<[enter |-> 1, outputs |-> {<<2, 1>>}]>>

(* C17: on `*` one control state with two outputs is created, the first    *)
(* leading to the operand's entry and the second dangling; every dangling  *)
(* output of the operand is set to the control state, and the pushed       *)
(* fragment is entered at the control state with its second output as the  *)
(* only dangling output.                                                   *)
C17_StarLoopsBack ==
    [][(AtToken("*") /\ Len(stack) >= 1) =>
          LET f == Top(stack)
              control == Len(states) + 1
          IN /\ Len(states') = control
             /\ states'[control] = State(None, <<f.enter, Nil>>)
             /\ \A op \in f.outputs : next(states', op) = control
             /\ OthersKept(f.outputs)
             /\ Pop(stack') = Pop(stack)
             /\ Top(stack') = [enter |-> control, outputs |-> {<<control, 2>>}]
             /\ \A s \in Reachable(states', control) :
                    \A k \in DOMAIN states'[s].outputs :
                        dangling(states', <<s, k>>) => <<s, k>> = <<control, 2>>]_vars

C17_Witness ==
    /\ postfix = <<"a", "?", "*">>
    /\ pc = "construct" /\ pos = 4
    /\ states = <<State("a", <<3>>), State(None, <<1, 3>>), State(None, <<2, Nil>>)>>
    /\ stack = <<[enter |-> 3, outputs |-> {<<3, 2>>}]>>

(* C18: on `+` one control state is created whose first output leads back  *)
(* to the operand's entry and whose second output is dangling; every       *)
(* dangling output of the operand is set to it, and the pushed fragment is *)
(* entered at the operand's entry, not at the control state, with the      *)
(* control state's second output as the only dangling output.              *)
C18_PlusEntersOperand ==
    [][(AtToken("+") /\ Len(stack) >= 1) =>
          LET f == Top(stack)
              control == Len(states) + 1
          IN /\ Len(states') = control
             /\ states'[control] = State(None, <<f.enter, Nil>>)
             /\ \A op \in f.outputs : next(states', op) = control
             /\ OthersKept(f.outputs)
             /\ Pop(stack') = Pop(stack)
             /\ Top(stack') = [enter |-> f.enter, outputs |-> {<<control, 2>>}]
             /\ f.enter # control
             /\ \A s \in Reachable(states', f.enter) :
                    \A k \in DOMAIN states'[s].outputs :
                        dangling(states', <<s, k>>) => <<s, k>> = <<control, 2>>]_vars

C18_Witness ==
    /\ postfix = <<"a", "+">>
    /\ pc = "construct" /\ pos = 3
    /\ states = <<State("a", <<2>>), State(None, <<1, Nil>>)>>
    /\ stack = <<[enter |-> 1, outputs |-> {<<2, 2>>}]>>

(* C19: the number of outputs of a State never changes once it is         *)
(* created, in construction or in matching; the Match state has none, a    *)
(* state with a trigger has one, and a control state has two.              *)
SlotsKept ==
    \A s \in DOMAIN states :
        /\ s \in DOMAIN states'
        /\ Len(states'[s].outputs) = Len(states[s].outputs)

IsTerminal(s) == nfa # <<>> /\ s = Len(states)

Arities ==
    \A s \in DOMAIN states :
        Len(states[s].outputs) = IF states[s].trigger # None THEN 1
                                 ELSE IF IsTerminal(s) THEN 0
                                 ELSE 2

C19_OutputCountFixed == [][SlotsKept /\ Arities']_vars

C19_Witness ==
    /\ postfix = <<"a", "b", "|">>
    /\ Returned
    /\ input = <<"a">>
    /\ states = <<State("a", <<4>>), State("b", <<4>>), State(None, <<1, 2>>), Match>>

(* The symbols advance is called with: those of the inputs, and None *)
Symbols == UNION {{w[k] : k \in DOMAIN w} : w \in Inputs} \cup {None}

(* C20: no state with a trigger has zero outputs, so advance never gives   *)
(* the acceptance signal, whatever the state and the character (None       *)
(* included); match never returns true from its per-character loop, only   *)
(* the final sweep could.                                                  *)
(* The second conjunct is checked when postfix_to_nfa returns: the states   *)
(* do not change afterwards.                                               *)
NeverSignals ==
    /\ \A s \in DOMAIN states : states[s].trigger # None => Len(states[s].outputs) # 0
    /\ pc = "ready" =>
          \A s \in DOMAIN states : \A c \in Symbols : advance(states, s, c).kind # "True"

C20_AdvanceNeverAccepts ==
    [][/\ NeverSignals'
       /\ pc = "scan" => result' # "True"
       /\ result' = "True" => pc = "sweep"]_vars

C20_Witness ==
    /\ postfix = <<"a", "b", ".">>
    /\ pc = "sweep"
    /\ input = <<"a", "b">>
    /\ i = 3
    /\ active = {3}
    /\ is_match(states, 3)

====
